---- MODULE Spec2Model ----
(***************************************************************************)
(* bmsurge-renderer: the job dispatcher (the `work` command) and the       *)
(* render worker (the PUT /renders/:operationId handler and render()).     *)
(*                                                                         *)
(*   Spec        the dispatcher: repeated runs of `work` over the songs    *)
(*               collection, with a bounded number of concurrent jobs.     *)
(*   RenderSpec  the worker: one `render` command or one PUT request,      *)
(*               through the stages of render() and the upload.            *)
(*   DecodeSpec  the dispatcher's decoding of a response body, over all    *)
(*               bodies up to a length.                                    *)
(*                                                                         *)
(* Each specification moves its own variables and leaves the others at     *)
(* their initial values.                                                   *)
(***************************************************************************)
EXTENDS Integers, Sequences, FiniteSets, TLC

\* ---------------------------------------------------------------- bounds
NumSongs == 3        \* documents in the songs collection
MaxCycles == 2       \* runs of the `work` command
Concurrency == 2     \* Bluebird.map's { concurrency: 128 }, scaled down so
                     \* that a batch can be larger than the cap

Songs == 1..NumSongs

\* A field a document or an object does not have.
Absent == "absent"

\* ------------------------------------------------- the response decoder
\* A response body is a string, modelled as a sequence of characters.  "D"
\* and "U" each stand for the text of one whole JSON object: "D" a
\* diagnostics object without an uploadedAt field, "U" one with it.  "x" is
\* a character that is no JSON text.  " " is white space, NL the newline.
NL == "\n"
JsonD == "diag"
JsonU == "diagUploaded"

\* String.prototype.split('\n'): the pieces between the newlines; a string
\* without a newline (the empty one included) is one piece.
RECURSIVE Split(_)
Split(s) ==
  IF \A i \in 1..Len(s) : s[i] # NL
  THEN <<s>>
  ELSE LET k == CHOOSE i \in 1..Len(s) :
                  s[i] = NL /\ \A j \in 1..(i - 1) : s[j] # NL
       IN <<SubSeq(s, 1, k - 1)>> \o Split(SubSeq(s, k + 1, Len(s)))

\* String.prototype.trim(): white space removed at both ends.
RECURSIVE TrimLeft(_)
TrimLeft(s) == IF s # <<>> /\ Head(s) = " " THEN TrimLeft(Tail(s)) ELSE s

RECURSIVE TrimRight(_)
TrimRight(s) ==
  IF s # <<>> /\ s[Len(s)] = " " THEN TrimRight(SubSeq(s, 1, Len(s) - 1)) ELSE s

Trim(s) == TrimRight(TrimLeft(s))

\* .filter(r => r.trim()): the lines whose trimmed text is non-empty, in order.
FilterNonBlank(lines) == SelectSeq(lines, LAMBDA r : Trim(r) # <<>>)

Undefined == <<"undefined">>

\* Variant of Pop that takes the first element, as .shift() would.
Pop_First(lines) == IF lines = <<>> THEN Undefined ELSE lines[1]

\* .pop(): the last element, or undefined for an empty array.
Pop(lines) == IF lines = <<>> THEN Undefined ELSE lines[Len(lines)]

\* JSON.parse: white space around one JSON text is allowed; anything else
\* (the empty string, a stray character, two texts, undefined) is a
\* SyntaxError.
JSONparse(text) ==
  LET t == Trim(text)
  IN IF t = <<"D">> THEN [ok |-> TRUE, value |-> JsonD]
     ELSE IF t = <<"U">> THEN [ok |-> TRUE, value |-> JsonU]
     ELSE [ok |-> FALSE, value |-> "SyntaxError"]

\* JSON.parse(response.data.split('\n').filter(r => r.trim()).pop())
Decode(data) == JSONparse(Pop(FilterNonBlank(Split(data))))

\* The bodies the render service is made to answer with in Spec.
Bodies ==
  { <<"D">>,
    <<"x", NL, "U", NL>>,
    <<"D", NL, NL, "x">>,
    <<" ", NL>> }

\* ------------------------------------------------------- the dispatcher
VARIABLES
  db,          \* the songs collection: song -> document
  wpc,         \* the `work` handler: "idle", "mapping", "done", "failed"
  clientOpen,  \* the MongoClient is connected and not closed
  found,       \* the documents the query returned in this run
  job,         \* song -> state of its mapper call in this run
  pend,        \* song -> the value its awaited updateOne is writing
  cycle,       \* number of runs of `work` started so far
  attempts,    \* song -> render requests issued for it in this run
  writes,      \* song -> the updateOne calls applied to it in this run
  aborted      \* some run of `work` has ended with a failure

dvars == <<db, wpc, clientOpen, found, job, pend, cycle, attempts, writes,
           aborted>>

\* The render worker.
VARIABLES
  caller,         \* who called render(): "none", "cli", "server"
  reqUrl,         \* the url of the command line or of the request body
  outputMp3Path,  \* render()'s second argument: a path, or Absent for null
  rpc,            \* render(): "idle", the stage it awaits, "returned", "thrown"
  diag,           \* outputDiagnostics
  procs,          \* what render() has started, in order, and how each settled
  hpc,            \* the PUT handler: "idle", "rendering", "uploading", "responded"
  resp,           \* the HTTP response
  now,            \* Date.now()
  hung,           \* the awaited process will never exit by itself
  upload          \* the handler's upload: "none", "started", "ok", "failed"

rvars == <<caller, reqUrl, outputMp3Path, rpc, diag, procs, hpc, resp, now,
           hung, upload>>

\* The decoder on its own.
VARIABLES
  respData,       \* response.data
  decoded         \* what the decoding gave

xvars == <<respData, decoded>>

\* The choice of the chart on its own.
VARIABLES
  manifest,       \* index.json: whether the song entry is there, its charts
  relisted,       \* the same index.json with the charts listed in another order
  selection,      \* what the choice gave for manifest
  reselection     \* what the choice gave for relisted

svars == <<manifest, relisted, selection, reselection>>

\* The files of one render, from the extraction to the move of the charts.
VARIABLES
  archive,        \* what 7z put under the extraction directory
  tree,           \* what is under the extraction directory now
  fpc,            \* "idle", "extracted", "pruned", "converting", "converted",
                  \* "failed" (prepareSounds has rejected), "chartsMoved"
  snd,            \* sound found by prepareSounds -> state of its mapper call
  soxRuns,        \* the converter processes started: source and destination
  warned,         \* the sounds logged with a conversion warning
  moved           \* the renames of the chart files: from and to

fvars == <<archive, tree, fpc, snd, soxRuns, warned, moved>>

ovars == <<svars, fvars>>

vars == <<dvars, rvars, xvars, ovars>>

\* The ways axios.put rejects: no connection, no answer within 900 s, an
\* answer with a status outside 2xx (the only one that carries a response).
FailureKinds == {"NetworkFailure", "TimeoutFailure", "Non2xx"}

\* String(error && error.stack) +
\*   (error.response ? `\nResponse: ${error.response.data}` : '')
\* The description is a string whose content nothing reads again; every
\* kind of error gives one.
ErrorText(kind) == "stack"

InFlightStates == {"requesting", "writingResult", "writingError"}

InFlight(j) == {s \in Songs : j[s] \in InFlightStates}

Queued(j) == {s \in Songs : j[s] = "queued"}

HasUploadedAt(v) == v = JsonU

\* Variant of Pending that asks for no renderResult at all.
Pending_NoResult(doc) == doc.renderResult = Absent

\* find({ 'renderResult.uploadedAt': { $exists: false } })
Pending(doc) == ~HasUploadedAt(doc.renderResult)

\* Variant of InitialLaunch without the concurrency option.
InitialLaunch_NoLimit(f) == f

\* Bluebird.map over an array: the mapper is called at once for the first
\* `concurrency` items, the others are queued.
InitialLaunch(f) ==
  {s \in f : Cardinality({t \in f : t < s}) < Concurrency}

\* The document a successful updateOne leaves.
SetResult(doc, result, t) ==
  [doc EXCEPT !.renderResult = result, !.renderedAt = t]

SetError(doc, err, t) ==
  [doc EXCEPT !.renderError = err, !.renderedAt = t]

DispatcherInit ==
  /\ db = [s \in Songs |->
             [renderResult |-> Absent, renderError |-> Absent, renderedAt |-> 0]]
  /\ wpc = "idle"
  /\ clientOpen = FALSE
  /\ found = {}
  /\ job = [s \in Songs |-> "none"]
  /\ pend = [s \in Songs |-> Absent]
  /\ cycle = 0
  /\ attempts = [s \in Songs |-> 0]
  /\ writes = [s \in Songs |-> <<>>]
  /\ aborted = FALSE

\* One run of `work` up to the first await of the mappers: connect, query,
\* start Bluebird.map.  An empty batch resolves the map at once and the
\* finally block closes the client.
StartWork ==
  /\ wpc \in {"idle", "done", "failed"}
  /\ cycle < MaxCycles
  /\ cycle' = cycle + 1
  /\ LET f == {s \in Songs : Pending(db[s])}
         l == InitialLaunch(f)
     IN /\ found' = f
        /\ job' = [s \in Songs |->
                     IF s \in l THEN "requesting"
                     ELSE IF s \in f THEN "queued" ELSE "none"]
        /\ attempts' = [s \in Songs |-> IF s \in l THEN 1 ELSE 0]
        /\ wpc' = IF f = {} THEN "done" ELSE "mapping"
        /\ clientOpen' = (f # {})
  /\ pend' = [s \in Songs |-> Absent]
  /\ writes' = [s \in Songs |-> <<>>]
  /\ UNCHANGED <<db, aborted>>
  /\ UNCHANGED <<rvars, xvars, ovars>>

\* axios.put settles for song s; the code up to the next await runs: the
\* decoding of the body and the call of updateOne, or the catch block's
\* call of updateOne.
ResponseOk(s) ==
  /\ job[s] = "requesting"
  /\ \E body \in Bodies :
       LET d == Decode(body)
       IN IF d.ok
          THEN /\ job' = [job EXCEPT ![s] = "writingResult"]
               /\ pend' = [pend EXCEPT ![s] = d.value]
          ELSE /\ job' = [job EXCEPT ![s] = "writingError"]
               /\ pend' = [pend EXCEPT ![s] = ErrorText("SyntaxError")]
  /\ UNCHANGED <<db, wpc, clientOpen, found, cycle, attempts, writes, aborted>>
  /\ UNCHANGED <<rvars, xvars, ovars>>

ResponseFail(s) ==
  /\ job[s] = "requesting"
  /\ \E kind \in FailureKinds :
       /\ job' = [job EXCEPT ![s] = "writingError"]
       /\ pend' = [pend EXCEPT ![s] = ErrorText(kind)]
  /\ UNCHANGED <<db, wpc, clientOpen, found, cycle, attempts, writes, aborted>>
  /\ UNCHANGED <<rvars, xvars, ovars>>

\* The mapper of song s has returned.  Bluebird.map frees its slot and calls
\* the mapper for one queued item, unless the map has been rejected; when
\* nothing is left the map is fulfilled and the finally block closes the
\* client.
Complete(s) ==
  LET j == [job EXCEPT ![s] = "fulfilled"]
  IN IF wpc # "mapping"
     THEN job' = j /\ UNCHANGED <<wpc, clientOpen, attempts>>
     ELSE IF Queued(j) # {}
     THEN /\ \E q \in Queued(j) :
               /\ job' = [j EXCEPT ![q] = "requesting"]
               /\ attempts' = [attempts EXCEPT ![q] = @ + 1]
          /\ UNCHANGED <<wpc, clientOpen>>
     ELSE IF InFlight(j) = {}
     THEN job' = j /\ wpc' = "done" /\ clientOpen' = FALSE /\ UNCHANGED attempts
     ELSE job' = j /\ UNCHANGED <<wpc, clientOpen, attempts>>

\* Variant of WriteResultOk in which something throws after the write has
\* been applied, so that the catch block writes as well.
WriteResultOk_ThenCatch(s) ==
  /\ job[s] = "writingResult"
  /\ clientOpen
  /\ db' = [db EXCEPT ![s] = SetResult(@, pend[s], cycle)]
  /\ writes' = [writes EXCEPT ![s] = Append(@, "result")]
  /\ job' = [job EXCEPT ![s] = "writingError"]
  /\ pend' = [pend EXCEPT ![s] = ErrorText("Error")]
  /\ UNCHANGED <<wpc, clientOpen, found, cycle, attempts, aborted>>
  /\ UNCHANGED <<rvars, xvars, ovars>>

\* The updateOne of the try block settles.  It fails when the store fails,
\* and always on a closed client; a failed write changes nothing and the
\* catch block calls updateOne with the error.
WriteResultOk(s) ==
  /\ job[s] = "writingResult"
  /\ clientOpen
  /\ db' = [db EXCEPT ![s] = SetResult(@, pend[s], cycle)]
  /\ writes' = [writes EXCEPT ![s] = Append(@, "result")]
  /\ pend' = [pend EXCEPT ![s] = Absent]
  /\ Complete(s)
  /\ UNCHANGED <<found, cycle, aborted>>
  /\ UNCHANGED <<rvars, xvars, ovars>>

WriteResultFail(s) ==
  /\ job[s] = "writingResult"
  /\ job' = [job EXCEPT ![s] = "writingError"]
  /\ pend' = [pend EXCEPT ![s] = ErrorText("MongoError")]
  /\ UNCHANGED <<db, wpc, clientOpen, found, cycle, attempts, writes, aborted>>
  /\ UNCHANGED <<rvars, xvars, ovars>>

\* The updateOne of the catch block settles.  Its failure is not caught: the
\* mapper rejects, which rejects the map (when it is still pending), and the
\* finally block closes the client.
WriteErrorOk(s) ==
  /\ job[s] = "writingError"
  /\ clientOpen
  /\ db' = [db EXCEPT ![s] = SetError(@, pend[s], cycle)]
  /\ writes' = [writes EXCEPT ![s] = Append(@, "error")]
  /\ pend' = [pend EXCEPT ![s] = Absent]
  /\ Complete(s)
  /\ UNCHANGED <<found, cycle, aborted>>
  /\ UNCHANGED <<rvars, xvars, ovars>>

WriteErrorFail(s) ==
  /\ job[s] = "writingError"
  /\ job' = [job EXCEPT ![s] = "rejected"]
  /\ pend' = [pend EXCEPT ![s] = Absent]
  /\ IF wpc = "mapping"
     THEN wpc' = "failed" /\ clientOpen' = FALSE /\ aborted' = TRUE
     ELSE UNCHANGED <<wpc, clientOpen, aborted>>
  /\ UNCHANGED <<db, found, cycle, attempts, writes>>
  /\ UNCHANGED <<rvars, xvars, ovars>>

\* ------------------------------------------------------ the render worker
MaxTime == 2         \* the clock's last value

NoTime == -1
NoError == <<>>
NoResponse == [status |-> 0, body |-> "none"]

\* The urls of the command lines and of the requests.
Urls ==
  { <<"h", "t", "t", "p", ":">>,
    <<"h", "t", "t", "p", "s", ":">>,
    <<"f", "t", "p", ":">>,
    <<"x", "h", "t", "t", "p">>,
    <<>> }

\* /^http/.test(url); an undefined url is tested as the text "undefined".
TestHttp(url) == Len(url) >= 4 /\ SubSeq(url, 1, 4) = <<"h", "t", "t", "p">>

\* The events of render(), in the order of its code.
StageOrder ==
  << "render:start", "render:downloaded", "render:extracted",
     "render:unrelatedFilesRemoved", "render:converted", "render:chartsMoved",
     "render:indexed", "render:chartSelected", "render:rendered",
     "render:normalized", "render:trimmed", "render:encoded" >>

\* What render() starts and awaits, in the order of its code.
ProcOrder ==
  << "wget", "7z", "prepareSounds", "bemuse-tools", "bms-renderer",
     "wavegain", "sox", "lame", "mv" >>

\* The timeout option of each call, in milliseconds; 0 for a call without one.
Timeout(cmd) ==
  CASE cmd = "wget" -> 120000
    [] cmd = "7z" -> 60000
    [] cmd = "bemuse-tools" -> 30000
    [] cmd = "bms-renderer" -> 300000
    [] cmd = "wavegain" -> 15000
    [] cmd = "sox" -> 30000
    [] cmd = "lame" -> 60000
    [] OTHER -> 0

\* How an awaited execa process settles: exit 0, another exit code, or
\* killed at its timeout.
Outcomes(cmd) ==
  {"ok", "ProcessFailure"} \cup
    (IF Timeout(cmd) > 0 THEN {"TimeoutFailure"} ELSE {})

\* What the await of a started process can give. A process that never exits
\* by itself settles only through the kill at its timeout.
Exits(cmd) ==
  IF hung THEN Outcomes(cmd) \cap {"TimeoutFailure"} ELSE Outcomes(cmd)

\* What the await of prepareSounds can give: it resolves, or it rejects when
\* one of its file system calls outside a try block throws; its converter
\* processes are started without a timeout.
PrepareExits == IF hung THEN {} ELSE {"ok", "FsError"}

\* Variant of Failed that takes a process killed at its timeout for a success.
Failed_OnlyExit(o) == o = "ProcessFailure"

\* An await of a process throws unless it exited with 0.
Failed(o) == o # "ok"

\* Variant of eventLog that keeps only the newest event.
eventLog_Overwrite(d, event) ==
  [d EXCEPT !.events = <<[time |-> now, event |-> event]>>]

\* eventLog(outputDiagnostics, event)
eventLog(d, event) ==
  [d EXCEPT !.events = Append(@, [time |-> now, event |-> event])]

\* const result = { operationId, events: [] }, or the default { events: [] }
NewDiag(operationId) ==
  [ operationId |-> operationId, workingDirectory |-> Absent, events |-> <<>>,
    outFile |-> Absent, error |-> NoError, finishedAt |-> NoTime ]

Settle(p, o) == [p EXCEPT ![Len(p)].outcome = o]

RenderInit ==
  /\ caller = "none"
  /\ reqUrl = <<>>
  /\ outputMp3Path = Absent
  /\ rpc = "idle"
  /\ diag = NewDiag(Absent)
  /\ procs = <<>>
  /\ hpc = "idle"
  /\ resp = NoResponse
  /\ now = 0
  /\ hung = FALSE
  /\ upload = "none"

\* render() starts the next process and awaits it.
Go(d, p, cmd, stage) ==
  /\ diag' = d
  /\ procs' = Append(p, [cmd |-> cmd, outcome |-> "running"])
  /\ rpc' = stage

\* Variant of Finish whose handler uploads without looking at outFile.
Finish_AlwaysUpload(c, d, p) ==
  /\ diag' = [d EXCEPT !.finishedAt = now]
  /\ procs' = p
  /\ rpc' = "returned"
  /\ IF c = "server"
     THEN hpc' = "uploading" /\ resp' = resp /\ upload' = "started"
     ELSE UNCHANGED <<hpc, resp, upload>>

\* render() leaves through its finally block and returns the diagnostics.
\* For the PUT handler the code after `await render(...)` runs on: with an
\* outFile the upload is started, without one the diagnostics are sent.
Finish(c, d, p) ==
  /\ diag' = [d EXCEPT !.finishedAt = now]
  /\ procs' = p
  /\ rpc' = "returned"
  /\ IF c = "server"
     THEN IF d.outFile # Absent
          THEN hpc' = "uploading" /\ resp' = resp /\ upload' = "started"
          ELSE /\ hpc' = "responded"
               /\ resp' = [status |-> 200, body |-> "diagnostics"]
               /\ upload' = upload
     ELSE UNCHANGED <<hpc, resp, upload>>

\* Variant of Raise without the catch block: the finally block runs and the
\* error leaves render(); the PUT handler passes it to next(err).
Raise_Uncaught(c, d, p, err) ==
  /\ diag' = [d EXCEPT !.finishedAt = now]
  /\ procs' = p
  /\ rpc' = "thrown"
  /\ IF c = "server"
     THEN /\ hpc' = "responded"
          /\ resp' = [status |-> 500, body |-> "error"]
          /\ upload' = upload
     ELSE UNCHANGED <<hpc, resp, upload>>

\* Something inside the try block throws: the catch block stores the error
\* description, then the finally block and the return.
Raise(c, d, p, err) == Finish(c, [d EXCEPT !.error = err], p)

\* render(), from its call to its first await: the start event, the working
\* directory, mkdirp of the download directory, wget.
Begin(c, d0) ==
  LET d1 == [eventLog(d0, "render:start") EXCEPT !.workingDirectory = "workDir"]
  IN \E fs \in {"ok", "throw"} :
       IF fs = "throw"
       THEN Raise(c, d1, procs, <<"FsError", "mkdirp">>)
       ELSE /\ Go(d1, procs, "wget", "download")
            /\ hpc' = (IF c = "server" THEN "rendering" ELSE hpc)
            /\ resp' = resp
            /\ upload' = upload

\* The `render <url>` command: render(args.url, args.output); the url is a
\* required argument.
CliRender ==
  /\ caller = "none" /\ hpc = "idle"
  /\ \E url \in Urls \ {<<>>}, out \in {Absent, "out.mp3"} :
       /\ caller' = "cli"
       /\ reqUrl' = url
       /\ outputMp3Path' = out
       /\ Begin("cli", NewDiag(Absent))
  /\ UNCHANGED <<now, hung>>
  /\ UNCHANGED <<dvars, xvars, ovars>>

\* PUT /renders/:operationId up to its first await.
PutRender ==
  /\ caller = "none" /\ hpc = "idle"
  /\ \E url \in Urls \cup {Undefined} :
       /\ reqUrl' = url
       /\ IF ~TestHttp(url)
          THEN /\ hpc' = "responded"
               /\ resp' = [status |-> 400, body |-> "URL must be valid"]
               /\ UNCHANGED <<caller, outputMp3Path, rpc, diag, procs, upload>>
          ELSE /\ caller' = "server"
               /\ outputMp3Path' = Absent
               /\ Begin("server", NewDiag("operationId"))
  /\ UNCHANGED <<now, hung>>
  /\ UNCHANGED <<dvars, xvars, ovars>>

\* wget has settled: the downloaded event, mkdirp of the extraction
\* directory, 7z.
DownloadDone ==
  /\ rpc = "download"
  /\ \E o \in Exits("wget"), fs \in {"ok", "throw"} :
       LET p == Settle(procs, o)
           d == eventLog(diag, "render:downloaded")
       IN IF Failed(o) THEN Raise(caller, diag, p, <<o, "wget">>)
          ELSE IF fs = "throw" THEN Raise(caller, d, p, <<"FsError", "mkdirp">>)
          ELSE Go(d, p, "7z", "extract") /\ UNCHANGED <<hpc, resp, upload>>
  /\ hung' = FALSE
  /\ UNCHANGED <<caller, reqUrl, outputMp3Path, now>>
  /\ UNCHANGED <<dvars, xvars, ovars>>

\* 7z has settled: the extracted event, the removal of the unrelated files
\* (glob.sync, unlinkSync), its event, the call of prepareSounds.
ExtractDone ==
  /\ rpc = "extract"
  /\ \E o \in Exits("7z"), fs \in {"ok", "throw"} :
       LET p == Settle(procs, o)
           d1 == eventLog(diag, "render:extracted")
           d2 == eventLog(d1, "render:unrelatedFilesRemoved")
       IN IF Failed(o) THEN Raise(caller, diag, p, <<o, "7z">>)
          ELSE IF fs = "throw" THEN Raise(caller, d1, p, <<"FsError", "unlink">>)
          ELSE Go(d2, p, "prepareSounds", "convert") /\ UNCHANGED <<hpc, resp, upload>>
  /\ hung' = FALSE
  /\ UNCHANGED <<caller, reqUrl, outputMp3Path, now>>
  /\ UNCHANGED <<dvars, xvars, ovars>>

\* prepareSounds has settled (it rejects when one of its file system calls
\* outside its try block throws): the converted event, the move of the chart
\* files (glob.sync, renameSync), its event, realpathSync, the indexer.
ConvertDone ==
  /\ rpc = "convert"
  /\ \E o \in PrepareExits, fs \in {"ok", "rename", "realpath"} :
       LET p == Settle(procs, o)
           d1 == eventLog(diag, "render:converted")
           d2 == eventLog(d1, "render:chartsMoved")
       IN IF Failed(o) THEN Raise(caller, diag, p, <<o, "prepareSounds">>)
          ELSE IF fs = "rename" THEN Raise(caller, d1, p, <<"FsError", "rename">>)
          ELSE IF fs = "realpath" THEN Raise(caller, d2, p, <<"FsError", "realpath">>)
          ELSE Go(d2, p, "bemuse-tools", "index") /\ UNCHANGED <<hpc, resp, upload>>
  /\ hung' = FALSE
  /\ UNCHANGED <<caller, reqUrl, outputMp3Path, now>>
  /\ UNCHANGED <<dvars, xvars, ovars>>

\* The indexer has settled: the indexed event, the reading of index.json
\* (readFileSync or JSON.parse throw, no song, no chart), the choice of the
\* chart, its event, the renderer.
IndexDone ==
  /\ rpc = "index"
  /\ \E o \in Exits("bemuse-tools"),
        m \in {"ok", "SyntaxError", "No song found", "No usable chart found"} :
       LET p == Settle(procs, o)
           d1 == eventLog(diag, "render:indexed")
           d2 == eventLog(d1, "render:chartSelected")
       IN IF Failed(o) THEN Raise(caller, diag, p, <<o, "bemuse-tools">>)
          ELSE IF m # "ok" THEN Raise(caller, d1, p, <<m, "index.json">>)
          ELSE Go(d2, p, "bms-renderer", "render") /\ UNCHANGED <<hpc, resp, upload>>
  /\ hung' = FALSE
  /\ UNCHANGED <<caller, reqUrl, outputMp3Path, now>>
  /\ UNCHANGED <<dvars, xvars, ovars>>

\* bms-renderer has settled: the rendered event, wavegain.
RenderDone ==
  /\ rpc = "render"
  /\ \E o \in Exits("bms-renderer") :
       LET p == Settle(procs, o)
           d == eventLog(diag, "render:rendered")
       IN IF Failed(o) THEN Raise(caller, diag, p, <<o, "bms-renderer">>)
          ELSE Go(d, p, "wavegain", "normalize") /\ UNCHANGED <<hpc, resp, upload>>
  /\ hung' = FALSE
  /\ UNCHANGED <<caller, reqUrl, outputMp3Path, now>>
  /\ UNCHANGED <<dvars, xvars, ovars>>

\* wavegain has settled: the normalized event, sox.
NormalizeDone ==
  /\ rpc = "normalize"
  /\ \E o \in Exits("wavegain") :
       LET p == Settle(procs, o)
           d == eventLog(diag, "render:normalized")
       IN IF Failed(o) THEN Raise(caller, diag, p, <<o, "wavegain">>)
          ELSE Go(d, p, "sox", "trim") /\ UNCHANGED <<hpc, resp, upload>>
  /\ hung' = FALSE
  /\ UNCHANGED <<caller, reqUrl, outputMp3Path, now>>
  /\ UNCHANGED <<dvars, xvars, ovars>>

\* sox has settled: unlinkSync of render.wav, the trimmed event, lame.
TrimDone ==
  /\ rpc = "trim"
  /\ \E o \in Exits("sox"), fs \in {"ok", "throw"} :
       LET p == Settle(procs, o)
           d == eventLog(diag, "render:trimmed")
       IN IF Failed(o) THEN Raise(caller, diag, p, <<o, "sox">>)
          ELSE IF fs = "throw" THEN Raise(caller, diag, p, <<"FsError", "unlink">>)
          ELSE Go(d, p, "lame", "encode") /\ UNCHANGED <<hpc, resp, upload>>
  /\ hung' = FALSE
  /\ UNCHANGED <<caller, reqUrl, outputMp3Path, now>>
  /\ UNCHANGED <<dvars, xvars, ovars>>

\* lame has settled: unlinkSync of song.wav, the encoded event, outFile; with
\* an output path the mv, without one the end of render().
EncodeDone ==
  /\ rpc = "encode"
  /\ \E o \in Exits("lame"), fs \in {"ok", "throw"} :
       LET p == Settle(procs, o)
           d1 == eventLog(diag, "render:encoded")
           d2 == [d1 EXCEPT !.outFile = "song.mp3"]
       IN IF Failed(o) THEN Raise(caller, diag, p, <<o, "lame">>)
          ELSE IF fs = "throw" THEN Raise(caller, diag, p, <<"FsError", "unlink">>)
          ELSE IF outputMp3Path # Absent
          THEN Go(d2, p, "mv", "move") /\ UNCHANGED <<hpc, resp, upload>>
          ELSE Finish(caller, d2, p)
  /\ hung' = FALSE
  /\ UNCHANGED <<caller, reqUrl, outputMp3Path, now>>
  /\ UNCHANGED <<dvars, xvars, ovars>>

\* mv has settled: outFile becomes the output path, the end of render().
MoveDone ==
  /\ rpc = "move"
  /\ \E o \in Exits("mv") :
       LET p == Settle(procs, o)
       IN IF Failed(o) THEN Raise(caller, diag, p, <<o, "mv">>)
          ELSE Finish(caller, [diag EXCEPT !.outFile = outputMp3Path], p)
  /\ hung' = FALSE
  /\ UNCHANGED <<caller, reqUrl, outputMp3Path, now>>
  /\ UNCHANGED <<dvars, xvars, ovars>>

\* The upload of the PUT handler has settled: the uploaded event and the
\* diagnostics as the response, or next(err).
UploadDone ==
  /\ hpc = "uploading"
  /\ \E ok \in BOOLEAN :
       IF ok
       THEN /\ diag' = eventLog(diag, "uploaded")
            /\ resp' = [status |-> 200, body |-> "diagnostics"]
            /\ upload' = "ok"
       ELSE /\ diag' = diag
            /\ resp' = [status |-> 500, body |-> "error"]
            /\ upload' = "failed"
  /\ hpc' = "responded"
  /\ UNCHANGED <<caller, reqUrl, outputMp3Path, rpc, procs, now, hung>>
  /\ UNCHANGED <<dvars, xvars, ovars>>

\* The process render() awaits turns out never to exit by itself.
Hang ==
  /\ rpc \notin {"idle", "returned", "thrown"}
  /\ ~hung
  /\ hung' = TRUE
  /\ UNCHANGED <<caller, reqUrl, outputMp3Path, rpc, diag, procs, hpc, resp,
                 now, upload>>
  /\ UNCHANGED <<dvars, xvars, ovars>>

\* Time passes.
Tick ==
  /\ now < MaxTime
  /\ now' = now + 1
  /\ UNCHANGED <<caller, reqUrl, outputMp3Path, rpc, diag, procs, hpc, resp,
                 hung, upload>>
  /\ UNCHANGED <<dvars, xvars, ovars>>

RenderNext ==
  \/ CliRender
  \/ PutRender
  \/ DownloadDone
  \/ ExtractDone
  \/ ConvertDone
  \/ IndexDone
  \/ RenderDone
  \/ NormalizeDone
  \/ TrimDone
  \/ EncodeDone
  \/ MoveDone
  \/ UploadDone
  \/ Hang
  \/ Tick

\* ------------------------------------------------------ the decoder alone
MaxBodyLen == 4      \* characters in a response body

Alphabet == {NL, " ", "D", "U", "x"}

AllBodies == UNION {[1..n -> Alphabet] : n \in 0..MaxBodyLen}

NotDecoded == [ok |-> FALSE, value |-> "pending"]

DecodeIdle ==
  /\ respData = <<>>
  /\ decoded = NotDecoded

\* The decoding line of the mapper, applied to response.data.
DecodeStep ==
  /\ decoded = NotDecoded
  /\ decoded' = Decode(respData)
  /\ UNCHANGED respData
  /\ UNCHANGED <<dvars, rvars, ovars>>

\* ------------------------------------------------- the choice of the chart
MaxCharts == 4       \* charts of the song in index.json

NoteCounts == {2, 5, 9}

\* The charts of a song: chart i is the file i, with some note count.
ChartLists ==
  UNION {[1..n -> [file : {0}, noteCount : NoteCounts]] : n \in 0..MaxCharts}

Numbered(cs) == [i \in 1..Len(cs) |-> [cs[i] EXCEPT !.file = i]]

Orders(n) == {p \in [1..n -> 1..n] : \A i, j \in 1..n : p[i] = p[j] => i = j}

\* The index.json files: without the song entry, or with its charts.
Manifests ==
  {[song |-> FALSE, charts |-> <<>>]} \cup
  {[song |-> TRUE, charts |-> Numbered(cs)] : cs \in ChartLists}

\* The same charts in every order of listing.
Relistings(m) ==
  {[m EXCEPT !.charts = [i \in 1..Len(m.charts) |-> m.charts[p[i]]]] :
     p \in Orders(Len(m.charts))}

\* One step of the sort: c goes behind every chart that does not come after
\* it under (a, b) => a.noteCount - b.noteCount; charts that compare equal
\* keep the order of the listing.
InsertChart(sorted, c) ==
  LET before == SelectSeq(sorted, LAMBDA a : a.noteCount - c.noteCount <= 0)
      after == SelectSeq(sorted, LAMBDA a : a.noteCount - c.noteCount > 0)
  IN before \o <<c>> \o after

RECURSIVE SortCharts(_)
\* charts.sort((a, b) => a.noteCount - b.noteCount)
SortCharts(cs) ==
  IF cs = <<>> THEN <<>>
  ELSE InsertChart(SortCharts(SubSeq(cs, 1, Len(cs) - 1)), cs[Len(cs)])

\* Variant of MedianIndex that takes the upper of two middle positions.
MedianIndex_Upper(n) == n \div 2

\* Math.floor((charts.length - 1) / 2), a position counted from 0
MedianIndex(n) == (n - 1) \div 2

Unselected == [error |-> "pending", selectedChart |-> Absent, events |-> <<>>]

\* From the reading of index.json to the chartSelected event.
SelectChart(m) ==
  IF ~m.song
  THEN [error |-> "No song found", selectedChart |-> Absent, events |-> <<>>]
  ELSE IF Len(m.charts) = 0
  THEN [error |-> "No usable chart found", selectedChart |-> Absent,
        events |-> <<>>]
  ELSE [error |-> "none",
        selectedChart |-> SortCharts(m.charts)[MedianIndex(Len(m.charts)) + 1],
        events |-> <<"render:chartSelected">>]

SelectIdle ==
  /\ manifest = [song |-> FALSE, charts |-> <<>>]
  /\ relisted = manifest
  /\ selection = Unselected
  /\ reselection = Unselected

\* The choice is made for index.json and for its relisting.
SelectStep ==
  /\ selection = Unselected
  /\ selection' = SelectChart(manifest)
  /\ reselection' = SelectChart(relisted)
  /\ UNCHANGED <<manifest, relisted>>
  /\ UNCHANGED <<dvars, rvars, xvars, fvars>>

\* ------------------------------------------------- the files of a render
MaxFiles == 3        \* entries of the archive
Cpus == 2            \* require('os').cpus().length

\* A path is the sequence of its characters.
LowerChar(c) ==
  CASE c = "A" -> "a" [] c = "B" -> "b" [] c = "E" -> "e" [] c = "M" -> "m"
    [] c = "V" -> "v" [] c = "W" -> "w" [] OTHER -> c

ToLower(p) == [i \in 1..Len(p) |-> LowerChar(p[i])]

EndsWith(p, suffix) ==
  Len(p) >= Len(suffix) /\ SubSeq(p, Len(p) - Len(suffix) + 1, Len(p)) = suffix

\* The last position of character c in p, 0 without one.
LastIndexOf(p, c) ==
  IF \E i \in 1..Len(p) : p[i] = c
  THEN CHOOSE i \in 1..Len(p) : p[i] = c /\ \A j \in (i + 1)..Len(p) : p[j] # c
  ELSE 0

\* path.basename(p)
Basename(p) == SubSeq(p, LastIndexOf(p, "/") + 1, Len(p))

\* path.extname(p): from the last dot of the base name, empty without a dot
\* or with the dot in front
Extname(p) ==
  LET b == Basename(p)
      k == LastIndexOf(b, ".")
  IN IF k <= 1 THEN <<>> ELSE SubSeq(b, k, Len(b))

\* path.basename(p, ext)
BasenameWithout(p, ext) ==
  LET b == Basename(p)
  IN IF ext # <<>> /\ b # ext /\ EndsWith(b, ext)
     THEN SubSeq(b, 1, Len(b) - Len(ext))
     ELSE b

ChartExts ==
  { <<"b", "m", "s">>, <<"b", "m", "e">>, <<"b", "m", "l">>, <<"p", "m", "s">>,
    <<"b", "m", "s", "o", "n">> }

SoundExts == { <<"w", "a", "v">>, <<"m", "p", "3">>, <<"o", "g", "g">> }

\* /\.(?:bms|bme|bml|pms|bmson|ogg|wav|mp3)/i.test(filePath)
TestAllowList(p) ==
  \E i \in 1..Len(p), a \in ChartExts \cup SoundExts :
    /\ p[i] = "."
    /\ i + Len(a) <= Len(p)
    /\ ToLower(SubSeq(p, i + 1, i + Len(a))) = a

\* Whether glob's '*.{...}' with nocase matches p: an entry of the directory
\* itself, not a dot file, whose name ends in a dot and one of the extensions.
GlobTop(p, exts) ==
  /\ \A i \in 1..Len(p) : p[i] # "/"
  /\ p[1] # "."
  /\ \E e \in exts : EndsWith(ToLower(p), <<".">> \o e)

\* The destination of the converter, under the converted directory.
SoundDest(sound) ==
  BasenameWithout(sound, Extname(sound)) \o <<".", "w", "a", "v">>

\* The target of a chart file, under the converted directory.
ChartTarget(file) ==
  BasenameWithout(file, Extname(file)) \o <<".", "s", "j", "i", "s">>
    \o Extname(file)

\* What an archive can hold: files with their sizes in bytes, and a directory
\* of its own.
Entries ==
  { [path |-> <<"a", ".", "w", "a", "v">>, kind |-> "file", size |-> 1],
    [path |-> <<"a", ".", "o", "g", "g">>, kind |-> "file", size |-> 1],
    [path |-> <<"z", ".", "W", "A", "V">>, kind |-> "file", size |-> 0],
    [path |-> <<"c", ".", "b", "m", "s">>, kind |-> "file", size |-> 1],
    [path |-> <<"n", ".", "t", "x", "t">>, kind |-> "file", size |-> 1],
    [path |-> <<"d", ".", "b", "m", "s", ".", "t", "x", "t">>,
     kind |-> "file", size |-> 1],
    [path |-> <<"s", "/", "e", ".", "w", "a", "v">>, kind |-> "file", size |-> 1],
    [path |-> <<"s", "/", "f", ".", "B", "M", "E">>, kind |-> "file", size |-> 1],
    [path |-> <<"g", ".", "m", "p", "3">>, kind |-> "dir", size |-> 1] }

Archives == {a \in SUBSET Entries : Cardinality(a) <= MaxFiles}

\* glob.sync('**/*', { nodir: true })
AllFiles(t) == {e \in t : e.kind = "file"}

\* Variant of IsBlank for a mapper without the test of the size.
IsBlank_Never(e) == FALSE

\* fs.statSync(sourceFile).size === 0
IsBlank(e) == e.size = 0

\* How the converter exits: it cannot read a directory.
SoxExits(e) == IF e.kind = "dir" THEN {"fail"} ELSE {"ok", "fail"}

\* fs.unlinkSync throws for a directory.
UnlinkThrows(e) == e.kind = "dir"

FilesIdle ==
  /\ archive = {}
  /\ tree = {}
  /\ fpc = "idle"
  /\ snd = [e \in Entries |-> "none"]
  /\ soxRuns = {}
  /\ warned = {}
  /\ moved = {}

\* The removal of the unrelated files.
Prune ==
  /\ fpc = "extracted"
  /\ tree' = tree \ {e \in AllFiles(tree) : ~TestAllowList(e.path)}
  /\ fpc' = "pruned"
  /\ UNCHANGED <<archive, snd, soxRuns, warned, moved>>
  /\ UNCHANGED <<dvars, rvars, xvars, svars>>

\* Bluebird.map calls the mapper for the sounds of l. Up to its first await a
\* mapper reads the size of its file: for a blank file it returns through its
\* finally block, which unlinks the file (a directory is never blank); for
\* another it starts the converter.
Called(f, l) ==
  [e \in Entries |->
     IF e \in l THEN (IF IsBlank(e) THEN "blank" ELSE "converting") ELSE f[e]]

UnlinkedAtCall(t, l) == t \ {e \in l : IsBlank(e)}

StartedAtCall(runs, l) ==
  runs \cup {[src |-> e.path, dst |-> SoundDest(e.path)] :
               e \in {x \in l : ~IsBlank(x)}}

\* prepareSounds up to its await: mkdirp, the glob of the sounds, and
\* Bluebird.map, which calls the mapper for as many sounds as there are
\* processors. Without a sound the map and prepareSounds resolve at once.
PrepareSounds ==
  /\ fpc = "pruned"
  /\ LET sounds == {e \in tree : GlobTop(e.path, SoundExts)}
         n == IF Cardinality(sounds) < Cpus THEN Cardinality(sounds) ELSE Cpus
         f == [e \in Entries |-> IF e \in sounds THEN "queued" ELSE "none"]
     IN /\ \E l \in SUBSET sounds :
             /\ Cardinality(l) = n
             /\ snd' = Called(f, l)
             /\ tree' = UnlinkedAtCall(tree, l)
             /\ soxRuns' = StartedAtCall(soxRuns, l)
        /\ fpc' = IF sounds = {} THEN "converted" ELSE "converting"
  /\ UNCHANGED <<archive, warned, moved>>
  /\ UNCHANGED <<dvars, rvars, xvars, svars>>

\* The mapper call for s has fulfilled, with state st and the directory t:
\* while the map is pending Bluebird calls the mapper for one queued sound,
\* and resolves the map, and with it prepareSounds, when none is queued or in
\* flight.
Fulfilled(s, st, t) ==
  LET f == [snd EXCEPT ![s] = st]
      queued == {e \in Entries : f[e] = "queued"}
      inFlight == {e \in Entries : f[e] \in {"blank", "converting"}}
  IN IF fpc = "converting" /\ queued # {}
     THEN /\ \E n \in queued :
               /\ snd' = Called(f, {n})
               /\ tree' = UnlinkedAtCall(t, {n})
               /\ soxRuns' = StartedAtCall(soxRuns, {n})
          /\ fpc' = fpc
     ELSE /\ snd' = f
          /\ tree' = t
          /\ soxRuns' = soxRuns
          /\ fpc' = IF fpc = "converting" /\ inFlight = {} THEN "converted" ELSE fpc

\* The mapper call for a blank file fulfils.
BlankDone(s) ==
  /\ snd[s] = "blank"
  /\ Fulfilled(s, "skipped", tree)
  /\ UNCHANGED <<archive, warned, moved>>
  /\ UNCHANGED <<dvars, rvars, xvars, svars>>

\* The converter of s has exited: the catch block logs a failure, the finally
\* block unlinks the source. When unlinkSync throws the mapper call rejects,
\* and so do the map and prepareSounds; the mapper calls in flight go on.
SoundSettle(s) ==
  /\ snd[s] = "converting"
  /\ \E o \in SoxExits(s) :
       /\ warned' = IF o = "fail" THEN warned \cup {s} ELSE warned
       /\ IF UnlinkThrows(s)
          THEN /\ snd' = [snd EXCEPT ![s] = "rejected"]
               /\ fpc' = IF fpc = "converting" THEN "failed" ELSE fpc
               /\ UNCHANGED <<tree, soxRuns>>
          ELSE Fulfilled(s, IF o = "ok" THEN "ok" ELSE "error", tree \ {s})
  /\ UNCHANGED <<archive, moved>>
  /\ UNCHANGED <<dvars, rvars, xvars, svars>>

\* render() after prepareSounds has resolved: the move of the chart files.
Relocate ==
  /\ fpc = "converted"
  /\ LET chartFiles == {e \in tree : GlobTop(e.path, ChartExts)}
     IN /\ moved' = {[from |-> e.path, to |-> ChartTarget(e.path)] :
                       e \in chartFiles}
        /\ tree' = tree \ chartFiles
  /\ fpc' = "chartsMoved"
  /\ UNCHANGED <<archive, snd, soxRuns, warned>>
  /\ UNCHANGED <<dvars, rvars, xvars, svars>>

\* --------------------------------------------------- the specifications
OthersIdle == SelectIdle /\ FilesIdle

Init == DispatcherInit /\ RenderInit /\ DecodeIdle /\ OthersIdle

Next ==
  \/ StartWork
  \/ \E s \in Songs : ResponseOk(s)
  \/ \E s \in Songs : ResponseFail(s)
  \/ \E s \in Songs : WriteResultOk(s)
  \/ \E s \in Songs : WriteResultFail(s)
  \/ \E s \in Songs : WriteErrorOk(s)
  \/ \E s \in Songs : WriteErrorFail(s)

Spec == Init /\ [][Next]_vars

RenderSpecInit == DispatcherInit /\ RenderInit /\ DecodeIdle /\ OthersIdle

RenderSpec == RenderSpecInit /\ [][RenderNext]_vars

DecodeInit ==
  /\ DispatcherInit
  /\ RenderInit
  /\ respData \in AllBodies
  /\ decoded = NotDecoded
  /\ OthersIdle

DecodeNext == DecodeStep

DecodeSpec == DecodeInit /\ [][DecodeNext]_vars

SelectInit ==
  /\ DispatcherInit
  /\ RenderInit
  /\ DecodeIdle
  /\ FilesIdle
  /\ manifest \in Manifests
  /\ relisted \in Relistings(manifest)
  /\ selection = Unselected
  /\ reselection = Unselected

SelectNext == SelectStep

FilesInit ==
  /\ DispatcherInit
  /\ RenderInit
  /\ DecodeIdle
  /\ SelectIdle
  /\ archive \in Archives
  /\ tree = archive
  /\ fpc = "extracted"
  /\ snd = [e \in Entries |-> "none"]
  /\ soxRuns = {}
  /\ warned = {}
  /\ moved = {}

FilesNext ==
  \/ Prune
  \/ PrepareSounds
  \/ \E s \in Entries : BlankDone(s)
  \/ \E s \in Entries : SoundSettle(s)
  \/ Relocate

FilesSpec == FilesInit /\ [][FilesNext]_vars

SelectSpec == SelectInit /\ [][SelectNext]_vars

\* ------------------------------------------------ the dispatcher's claims

\* C1 (as stated): when a run of `work` has ended, every record it selected
\* has had its render request issued exactly once and exactly one updateOne
\* applied (renderResult or renderError), stamped with this run's renderedAt.
C1_EverySelectedWrittenOnce ==
  wpc \in {"done", "failed"} =>
    \A s \in found :
      /\ attempts[s] = 1
      /\ Len(writes[s]) = 1
      /\ db[s].renderedAt = cycle

\* C2 (as stated): no failure of one job makes the run end with a failure,
\* and when the run has ended every selected record's mapper has completed
\* with its own write.
C2_JobFailureNeverAborts ==
  /\ wpc # "failed"
  /\ wpc = "done" => \A s \in found : job[s] = "fulfilled" /\ Len(writes[s]) = 1

C4_AtMostConcurrencyInFlight == Cardinality(InFlight(job)) <= Concurrency

\* C4 witness: the cap is reached while a selected record still waits.
C4_Witness ==
  /\ Cardinality(InFlight(job)) = Concurrency
  /\ Queued(job) # {}

EventNames(d) == [i \in 1..Len(d.events) |-> d.events[i].event]

\* The events render() itself has recorded.
RenderEventNames == SelectSeq(EventNames(diag), LAMBDA e : e # "uploaded")

IsPrefix(a, b) == Len(a) <= Len(b) /\ a = SubSeq(b, 1, Len(a))

Recorded(event) == \E i \in 1..Len(RenderEventNames) : RenderEventNames[i] = event

\* The event of the stage before the one that starts cmd, and the event the
\* stage of cmd records when cmd has succeeded.
EventBefore(cmd) ==
  CASE cmd = "wget" -> "render:start"
    [] cmd = "7z" -> "render:downloaded"
    [] cmd = "prepareSounds" -> "render:unrelatedFilesRemoved"
    [] cmd = "bemuse-tools" -> "render:chartsMoved"
    [] cmd = "bms-renderer" -> "render:chartSelected"
    [] cmd = "wavegain" -> "render:rendered"
    [] cmd = "sox" -> "render:normalized"
    [] cmd = "lame" -> "render:trimmed"
    [] cmd = "mv" -> "render:encoded"

EventAfter(cmd) ==
  CASE cmd = "wget" -> "render:downloaded"
    [] cmd = "7z" -> "render:extracted"
    [] cmd = "prepareSounds" -> "render:converted"
    [] cmd = "bemuse-tools" -> "render:indexed"
    [] cmd = "bms-renderer" -> "render:rendered"
    [] cmd = "wavegain" -> "render:normalized"
    [] cmd = "sox" -> "render:trimmed"
    [] cmd = "lame" -> "render:encoded"
    [] cmd = "mv" -> "none"

\* C6: render() never throws to its caller; when it has returned, finishedAt
\* is set, and if something it awaited failed the error description is set.
C6_RenderReturnsFinished ==
  /\ rpc # "thrown"
  /\ rpc = "returned" =>
       /\ diag.finishedAt # NoTime
       /\ (\E i \in 1..Len(procs) : procs[i].outcome \notin {"ok", "running"})
            => diag.error # NoError

\* C6 witness: render() has returned after a failure of a process.
C6_Witness ==
  /\ rpc = "returned"
  /\ procs # <<>>
  /\ procs[Len(procs)].outcome = "ProcessFailure"
  /\ diag.error # NoError
  /\ diag.finishedAt # NoTime

\* C7 (as stated): when render() has returned, exactly one of outFile and
\* error is set.
C7_ExactlyOneOfOutFileAndError ==
  rpc = "returned" => ((diag.outFile # Absent) # (diag.error # NoError))

\* C8: the events of render() are a prefix of the stage order; what it has
\* started is a prefix of the order of its calls, one running at a time, each
\* started only after the event of the stage before it; a call that failed is
\* the last one started, the event of its stage is not recorded, render() has
\* returned and the error description is set; and render() returns without
\* the last event only with the error description set.
C8_StagesInOrderAndShortCircuit ==
  /\ IsPrefix(RenderEventNames, StageOrder)
  /\ IsPrefix([i \in 1..Len(procs) |-> procs[i].cmd], ProcOrder)
  /\ Cardinality({i \in 1..Len(procs) : procs[i].outcome = "running"}) <= 1
  /\ \A i \in 1..Len(procs) :
       /\ Recorded(EventBefore(procs[i].cmd))
       /\ procs[i].outcome = "running" => i = Len(procs)
       /\ procs[i].outcome \notin {"ok", "running"} =>
            /\ i = Len(procs)
            /\ ~Recorded(EventAfter(procs[i].cmd))
            /\ rpc = "returned"
            /\ diag.error # NoError
  /\ (rpc = "returned" /\ RenderEventNames # StageOrder) => diag.error # NoError

\* C8 witness: bms-renderer was killed at its timeout; chartSelected is the
\* last event.
C8_Witness ==
  /\ rpc = "returned"
  /\ Len(procs) = 5
  /\ procs[5] = [cmd |-> "bms-renderer", outcome |-> "TimeoutFailure"]
  /\ RenderEventNames = SubSeq(StageOrder, 1, 8)
  /\ diag.error = <<"TimeoutFailure", "bms-renderer">>

\* C9 (as stated): the response carries an error status if and only if the
\* url is malformed, and then render() was not run; every other request is
\* answered with the diagnostics.
C9_ErrorStatusIffMalformedUrl ==
  hpc = "responded" =>
    /\ (resp.status # 200) <=> ~TestHttp(reqUrl)
    /\ ~TestHttp(reqUrl) => (rpc = "idle" /\ procs = <<>> /\ diag.events = <<>>)
    /\ TestHttp(reqUrl) => resp.body = "diagnostics"

\* --------------------------------------------------- the decoder's claim
\* The positions of respData that hold neither a newline nor white space.
Inked == {i \in 1..Len(respData) : respData[i] \notin {NL, " "}}

\* The line the last such position lies in: from after the newline before it
\* to before the newline after it.
LastInkedLine ==
  LET k == CHOOSE i \in Inked : \A j \in Inked : j <= i
      from == CHOOSE i \in 1..k :
                /\ \A j \in i..k : respData[j] # NL
                /\ (i = 1 \/ respData[i - 1] = NL)
      to == CHOOSE i \in k..Len(respData) :
              /\ \A j \in k..i : respData[j] # NL
              /\ (i = Len(respData) \/ respData[i + 1] = NL)
  IN SubSeq(respData, from, to)

\* C10: the decoding gives the JSON value of the last line that is not blank,
\* whatever the lines before it hold; it fails when no line is non-blank or
\* when that line is no JSON text.
C10_DecodesLastNonBlankLine ==
  decoded # NotDecoded =>
    IF Inked = {}
    THEN ~decoded.ok
    ELSE /\ decoded = JSONparse(LastInkedLine)
         /\ decoded.ok <=> Trim(LastInkedLine) \in {<<"D">>, <<"U">>}

\* C10 witness: a malformed line, a blank line, then a JSON text and a
\* trailing newline decode to the value of the JSON text.
C10_Witness ==
  /\ respData = <<"x", NL, "U", NL>>
  /\ decoded = [ok |-> TRUE, value |-> JsonU]

\* ------------------------------------------- claims of the diagnostics log
\* The timestamps of the events, in the order of the log.
EventTimes(d) == [i \in 1..Len(d.events) |-> d.events[i].time]

\* The positions of the log that hold events of render() itself.
RenderEventAt(d) == {i \in 1..Len(d.events) : d.events[i].event # "uploaded"}

\* C14 as stated: once finishedAt is set no event of the log carries a later
\* timestamp, on the command line and on the server alike.
C14_NoEventAfterFinish ==
  diag.finishedAt # NoTime =>
    \A i \in 1..Len(diag.events) : diag.events[i].time <= diag.finishedAt

\* C14: the log only grows by appending, the timestamps never decrease along
\* it, finishedAt is no earlier than the last event render() recorded, and the
\* uploaded event the PUT handler appends afterwards is no earlier than
\* finishedAt.
C14_EventsAppendOnlyOrdered ==
  /\ [][IsPrefix(diag.events, diag'.events)]_vars
  /\ [](/\ \A i, j \in 1..Len(diag.events) :
             i <= j => EventTimes(diag)[i] <= EventTimes(diag)[j]
        /\ diag.finishedAt # NoTime =>
             /\ \A i \in RenderEventAt(diag) :
                  EventTimes(diag)[i] <= diag.finishedAt
             /\ \A i \in 1..Len(diag.events) \ RenderEventAt(diag) :
                  diag.finishedAt <= EventTimes(diag)[i])

\* C14 witness: a request whose events were recorded at different times, whose
\* render() finished no earlier than its last event, and whose uploaded event
\* came later still.
C14_Witness ==
  /\ Len(diag.events) >= 3
  /\ diag.events[1].time < diag.events[Len(diag.events) - 1].time
  /\ diag.events[Len(diag.events) - 1].time <= diag.finishedAt
  /\ diag.events[Len(diag.events)].event = "uploaded"
  /\ diag.finishedAt < diag.events[Len(diag.events)].time

\* ------------------------------------------------ claims of the timeouts
\* Some process render() awaits settles.
RenderSettles ==
  \/ DownloadDone
  \/ ExtractDone
  \/ ConvertDone
  \/ IndexDone
  \/ RenderDone
  \/ NormalizeDone
  \/ TrimDone
  \/ EncodeDone
  \/ MoveDone

\* C16 as stated: whatever render() awaits has a timeout that ends it, so a
\* started render() can always go on, even when the awaited process never
\* exits by itself.
C16_EveryAwaitSettles ==
  rpc \notin {"idle", "returned", "thrown"} => ENABLED RenderSettles

\* --------------------------------------------------- claims of the upload
\* C18: the PUT handler starts the upload only after render() has returned
\* with outFile set; the uploaded event is in the log exactly when the upload
\* has succeeded; a render() that ended with an error and no outFile is
\* followed by no upload and no uploaded event.
C18_UploadOnlyAfterRenderWithOutFile ==
  /\ (hpc = "uploading") <=> (upload = "started")
  /\ upload # "none" =>
       /\ caller = "server"
       /\ rpc = "returned"
       /\ diag.finishedAt # NoTime
       /\ diag.outFile # Absent
  /\ (\E i \in 1..Len(diag.events) : diag.events[i].event = "uploaded")
       <=> (upload = "ok")
  /\ (rpc = "returned" /\ diag.error # NoError /\ diag.outFile = Absent) =>
       /\ upload = "none"
       /\ \A i \in 1..Len(diag.events) : diag.events[i].event # "uploaded"

\* C18 witness: the upload of a rendered file has succeeded and its event is
\* the last of the log.
C18_Witness ==
  /\ upload = "ok"
  /\ diag.outFile = "song.mp3"
  /\ diag.events[Len(diag.events)].event = "uploaded"

\* ------------------------------------------- claims of the store connection
\* C19 as stated: once client.close() has been called no job of the cycle is
\* still in flight, so none issues a render request or a store write on the
\* closed client, also when a mapper has rejected.
C19_NoJobOutlivesClient ==
  ~clientOpen => \A s \in Songs : job[s] \notin InFlightStates

\* ------------------------------------------ claims of the choice of the chart
NoteCountsOf(m) == [i \in 1..Len(m.charts) |-> m.charts[i].noteCount]

\* The positions of the listing whose chart has fewer notes than c, or as
\* many and an earlier place in the listing.
Ahead(m, i) ==
  {j \in 1..Len(m.charts) :
     \/ m.charts[j].noteCount < m.charts[i].noteCount
     \/ m.charts[j].noteCount = m.charts[i].noteCount /\ j < i}

\* C11 as stated: the chart chosen does not depend on the order in which
\* index.json lists the charts.
C11_ChoiceIndependentOfListing ==
  selection # Unselected => selection.selectedChart = reselection.selectedChart

\* C11: with N >= 1 charts the chosen chart is the one that floor((N-1)/2)
\* charts precede in the order by note count (charts of equal note count in
\* the order of the listing), so its note count does not depend on the order
\* of the listing; without the song entry the error is 'No song found', with
\* N = 0 it is 'No usable chart found', and neither records chartSelected.
C11_MedianByNoteCount ==
  selection # Unselected =>
    IF ~manifest.song
    THEN selection.error = "No song found" /\ selection.events = <<>>
    ELSE IF Len(manifest.charts) = 0
    THEN selection.error = "No usable chart found" /\ selection.events = <<>>
    ELSE /\ selection.error = "none"
         /\ selection.events = <<"render:chartSelected">>
         /\ \E i \in 1..Len(manifest.charts) :
              /\ selection.selectedChart = manifest.charts[i]
              /\ Cardinality(Ahead(manifest, i)) = (Len(manifest.charts) - 1) \div 2
         /\ reselection.error = "none"
         /\ reselection.selectedChart.noteCount = selection.selectedChart.noteCount

\* C11 witness: for the note counts 5, 2, 9, 2 the choice is the second of
\* the two charts with 2 notes; listed in another order it is the first.
C11_Witness ==
  /\ NoteCountsOf(manifest) = <<5, 2, 9, 2>>
  /\ selection.error = "none"
  /\ selection.selectedChart = [file |-> 4, noteCount |-> 2]
  /\ reselection.selectedChart = [file |-> 2, noteCount |-> 2]

\* ------------------------------------------------- claims of the file stages
\* The extension of the name of p, in lower case and without its dot.
LowerExtension(p) ==
  IF Extname(p) = <<>> THEN <<>> ELSE Tail(ToLower(Extname(p)))

HasChartName(e) == e.kind = "file" /\ LowerExtension(e.path) \in ChartExts

HasSoundName(e) == e.kind = "file" /\ LowerExtension(e.path) \in SoundExts

\* C12 as stated: after the removal of the unrelated files a file of the
\* archive is still there if and only if the extension of its name is in the
\* allow-list, compared without regard to case.
C12_PruneKeepsExactlyAllowedExtensions ==
  fpc = "pruned" =>
    \A e \in AllFiles(archive) :
      e \in tree <=> LowerExtension(e.path) \in ChartExts \cup SoundExts

\* C13: for a sound file of zero bytes no converter is started and no failure
\* is logged, its mapper call does not reject, and once the call has been
\* made the file is gone from the extraction directory.
C13_BlankSoundSkipped ==
  \A e \in Entries :
    (e.kind = "file" /\ e.size = 0) =>
      /\ \A r \in soxRuns : r.src # e.path
      /\ e \notin warned
      /\ snd[e] \in {"none", "queued", "blank", "skipped"}
      /\ snd[e] \in {"blank", "skipped"} => e \notin tree

\* C13 witness: prepareSounds has resolved after it skipped a file of zero
\* bytes and converted another.
C13_Witness ==
  /\ fpc = "converted"
  /\ \E e \in archive : e.size = 0 /\ snd[e] = "skipped" /\ e \notin tree
  /\ \E e \in archive : snd[e] = "ok"

\* C15 as stated: prepareSounds never rejects, whatever happens to one of its
\* files, and when it has resolved every sound it found is gone from the
\* extraction directory.
C15_PrepareSoundsNeverFails ==
  /\ fpc # "failed"
  /\ \A e \in Entries : snd[e] # "rejected"
  /\ fpc \in {"converted", "chartsMoved"} =>
       \A e \in Entries : snd[e] # "none" => e \notin tree

\* C17 as stated: once the charts have been moved no file with the name of a
\* sound or of a chart is left anywhere under the extraction directory, every
\* such chart has been moved to a name with the .sjis marker, and every such
\* sound that is not blank has been given to the converter.
C17_EverySoundAndChartCovered ==
  fpc = "chartsMoved" =>
    \A e \in archive :
      /\ (HasChartName(e) \/ HasSoundName(e)) => e \notin tree
      /\ HasChartName(e) =>
           [from |-> e.path, to |-> ChartTarget(e.path)] \in moved
      /\ (HasSoundName(e) /\ e.size # 0) => \E r \in soxRuns : r.src = e.path

\* C20 as stated: two converter processes started for different sources have
\* different destinations.
C20_DistinctDestinations ==
  \A r1, r2 \in soxRuns : r1.src # r2.src => r1.dst # r2.dst

====
